---- MODULE Spec2Model ----
(***************************************************************************)
(* Model of doctl's experimental 'nim' bridge (package commands):          *)
(* deployServerless, convertToNimProject, githubProject, localProject,     *)
(* getServerlessURL, addServerlessURLToStaticSites, addURLToSite,          *)
(* getNimPath and runNim.                                                  *)
(*                                                                         *)
(* Go values are modelled as follows.  A string is a TLA+ string and "+"   *)
(* is \o.  A nil pointer is the record Nil.  A nil error is NoError, any   *)
(* other error is its message.  A slice is a sequence; every site's Envs   *)
(* slice has a backing array of its own (as a decoded app spec has), so    *)
(* append never writes into another site's collection.  A                  *)
(* *godo.AppStaticSiteSpec is an identity of the heap 'sites', so that a   *)
(* list can name the same site twice.                                      *)
(***************************************************************************)
EXTENDS Integers, Sequences, FiniteSets, TLC

VARIABLES
    pc,          \* position of the single thread: "idle", "convert",
                 \* "deploy_loop", "inject_fetch", "inject_loop", "done"
    op,          \* function being executed: "none", "convert", "deploy", "inject"
    projects,    \* deployServerless: the argument 'projects'
    idx,         \* index of the range loop in progress (1-based)
    nimProjects, \* deployServerless: the local 'nimProjects'
    sites,       \* heap: site identity -> its Envs slice
    siteList,    \* addServerlessURLToStaticSites: the argument 'sites'
    url,         \* addServerlessURLToStaticSites: the local 'url'
    launches,    \* exec.Command(...).CombinedOutput() calls of the current call
    ret,         \* value returned to the caller by the finished call
    sites0,      \* history: the heap when the current call started
    initial,     \* history: the heap at construction
    succeeded    \* history: site lists on which a finished injection returned nil

vars == <<pc, op, projects, idx, nimProjects, sites, siteList, url, launches,
          ret, sites0, initial, succeeded>>

----------------------------------------------------------------------------
(* Bounds of the model *)

MaxProjects == 3   \* longest list handed to deployServerless
NumSites == 2      \* static sites on the heap
MaxEnvs == 2       \* longest Envs slice at construction
MaxSiteList == 2   \* longest list handed to addServerlessURLToStaticSites

----------------------------------------------------------------------------
(* Go values *)

Nil == [nil |-> TRUE]
NoError == "<nil>"
NoReturn == [none |-> TRUE]

\* godo.AppVariableScope / godo.AppVariableType values used by the source
AppVariableScope_BuildTime == "BUILD_TIME"
AppVariableType_General == "GENERAL"

\* error messages of the source (its backquotes written as quotes)
ErrNoSource == "one of 'Local' or 'GitHub' must appear in a 'serverless' spec"
ErrBothSources == "you cannot specify both 'Local' and 'GitHub' in a 'serverless' spec"
ErrDeployOnPush == "the 'deploy on push' feature is not currently supported for serverless"
ErrRepoRequired == "The 'repo' field is required"
ErrLocalEmpty == "If 'local' is used, either the path or the sourceDir or both must be specified"
ErrConflictingUse == "Unable to add serverless URL to static site because the variable has a conflicting use"

----------------------------------------------------------------------------
(* Project Reference Builder: pure functions returning (string, error) *)

Result(project, err) == [project |-> project, err |-> err]

\* Faulty variant: the branch segment before the sub-directory segment
githubProject_BranchFirst(spec, sourceDir) ==
    IF spec.DeployOnPush THEN Result("", ErrDeployOnPush)
    ELSE IF spec.Repo = "" THEN Result("", ErrRepoRequired)
    ELSE LET p0 == "github:" \o spec.Repo
             p1 == IF spec.Branch # "" THEN p0 \o "#" \o spec.Branch ELSE p0
             p2 == IF sourceDir # "" THEN p1 \o "/" \o sourceDir ELSE p1
         IN  Result(p2, NoError)

githubProject(spec, sourceDir) ==
    IF spec.DeployOnPush THEN Result("", ErrDeployOnPush)
    ELSE IF spec.Repo = "" THEN Result("", ErrRepoRequired)
    ELSE LET p0 == "github:" \o spec.Repo
             p1 == IF sourceDir # "" THEN p0 \o "/" \o sourceDir ELSE p0
             p2 == IF spec.Branch # "" THEN p1 \o "#" \o spec.Branch ELSE p1
         IN  Result(p2, NoError)

localProject(spec, sourceDir) ==
    IF spec.Path # ""
    THEN IF sourceDir # ""
         THEN Result(spec.Path \o "/" \o sourceDir, NoError)
         ELSE Result(spec.Path, NoError)
    ELSE IF sourceDir # ""
         THEN Result(sourceDir, NoError)
         ELSE Result("", ErrLocalEmpty)

\* Faulty variant: GitHub looked at first, so that both-set goes unnoticed
convertToNimProject_GitHubFirst(spec) ==
    IF spec.GitHub # Nil
    THEN githubProject(spec.GitHub, spec.SourceDir)
    ELSE IF spec.Local = Nil
         THEN Result("", ErrNoSource)
         ELSE localProject(spec.Local, spec.SourceDir)

convertToNimProject(spec) ==
    IF spec.Local = Nil
    THEN IF spec.GitHub = Nil
         THEN Result("", ErrNoSource)
         ELSE githubProject(spec.GitHub, spec.SourceDir)
    ELSE IF spec.GitHub # Nil
         THEN Result("", ErrBothSources)
         ELSE localProject(spec.Local, spec.SourceDir)

----------------------------------------------------------------------------
(* Inputs of the builder: every godo.AppServerlessSpec over small strings *)

Repos == {"", "org/repo"}
Branches == {"", "main"}
Paths == {"", "/a/b", "."}
SourceDirs == {"", "src"}

GitHubSourceSpecs == [Repo : Repos, Branch : Branches, DeployOnPush : BOOLEAN]
LocalSourceSpecs == [Path : Paths]
AppServerlessSpecs ==
    [Local : {Nil} \cup LocalSourceSpecs,
     GitHub : {Nil} \cup GitHubSourceSpecs,
     SourceDir : SourceDirs]

----------------------------------------------------------------------------
(* Path Resolver and Process Invoker.  The environment decides what        *)
(* os.UserHomeDir and the external process answer; both are inputs.        *)

HomeOutcomes ==
    {[dir |-> "/home/u", err |-> NoError],
     [dir |-> "", err |-> "$HOME is not defined"]}

ExecOutcomes ==
    {[output |-> "https://ns.example\n", err |-> NoError],
     [output |-> "nim: not logged in\n", err |-> "exit status 1"],
     [output |-> "", err |-> "fork/exec: no such file or directory"]}

getNimPath(home) ==
    IF home.err # NoError
    THEN [path |-> "", err |-> home.err]
    ELSE [path |-> home.dir \o "/.nimbella/cli/bin/nim", err |-> NoError]

\* runNim: what it returns, and the process launches it made (none or one)
runNim(args, home, exec) ==
    LET nim == getNimPath(home)
    IN  IF nim.err # NoError
        THEN [output |-> "", err |-> nim.err, launched |-> <<>>]
        ELSE [output |-> exec.output, err |-> exec.err,
              launched |-> <<[nim |-> nim.path, args |-> args,
                              output |-> exec.output, err |-> exec.err]>>]

\* Faulty variant: the --web flag forgotten
getServerlessURLArgs_NoWeb == <<"auth", "current">>

getServerlessURLArgs == <<"auth", "current", "--web">>

getServerlessURL(home, exec) == runNim(getServerlessURLArgs, home, exec)

----------------------------------------------------------------------------
(* Endpoint Injector: the pure part *)

HasServerlessURL(envs) == \E i \in 1..Len(envs) : envs[i].Key = "SERVERLESS_URL"

NewEnv(u) ==
    [Key |-> "SERVERLESS_URL", Value |-> u,
     Scope |-> AppVariableScope_BuildTime, Type |-> AppVariableType_General]

\* Faulty variant: no look for an existing entry
addURLToSite_AlwaysAppend(u, envs) ==
    [envs |-> Append(envs, NewEnv(u)), err |-> NoError]

\* Faulty variant: 'return nil, err' on a conflict, which the caller stores
addURLToSite_NilOnConflict(u, envs) ==
    IF HasServerlessURL(envs)
    THEN [envs |-> <<>>, err |-> ErrConflictingUse]
    ELSE [envs |-> Append(envs, NewEnv(u)), err |-> NoError]

\* Faulty variant: the new entry put first
addURLToSite_Prepend(u, envs) ==
    IF HasServerlessURL(envs)
    THEN [envs |-> envs, err |-> ErrConflictingUse]
    ELSE [envs |-> <<NewEnv(u)>> \o envs, err |-> NoError]

addURLToSite(u, envs) ==
    IF HasServerlessURL(envs)
    THEN [envs |-> envs, err |-> ErrConflictingUse]
    ELSE [envs |-> Append(envs, NewEnv(u)), err |-> NoError]

----------------------------------------------------------------------------
(* Deployment Orchestrator: the argument vector *)

\* Faulty variant: the references before the preamble
deployArgs_RefsFirst(refs) == refs \o <<"project", "deploy", "--exclude", "web">>

deployArgs(refs) == <<"project", "deploy", "--exclude", "web">> \o refs

----------------------------------------------------------------------------
(* Inputs *)

Sites == 1..NumSites

\* Entries a static site may hold at construction
EnvPoolSeq ==
    <<[Key |-> "API_KEY", Value |-> "k", Scope |-> "RUN_TIME", Type |-> "SECRET"],
      [Key |-> "SERVERLESS_URL", Value |-> "old", Scope |-> "RUN_AND_BUILD_TIME",
       Type |-> "SECRET"]>>

EnvPool == {EnvPoolSeq[i] : i \in 1..Len(EnvPoolSeq)}

SeqsUpTo(S, n) == UNION {[1..k -> S] : k \in 0..n}

\* An injective numbering of the sequences over EnvPool
RECURSIVE EnvsCode(_)
EnvsCode(envs) ==
    IF envs = <<>> THEN 0
    ELSE (CHOOSE i \in 1..Len(EnvPoolSeq) : EnvPoolSeq[i] = Head(envs))
         + (Len(EnvPoolSeq) + 1) * EnvsCode(Tail(envs))

\* Components handed to deployServerless: one per outcome of the builder,
\* and several accepted ones so that the order of the references shows
DeployPool ==
    {[Local |-> Nil, GitHub |-> Nil, SourceDir |-> "src"],
     [Local |-> [Path |-> "/a/b"],
      GitHub |-> [Repo |-> "org/repo", Branch |-> "", DeployOnPush |-> FALSE],
      SourceDir |-> ""],
     [Local |-> Nil,
      GitHub |-> [Repo |-> "", Branch |-> "main", DeployOnPush |-> TRUE],
      SourceDir |-> ""],
     [Local |-> Nil,
      GitHub |-> [Repo |-> "", Branch |-> "main", DeployOnPush |-> FALSE],
      SourceDir |-> "src"],
     [Local |-> [Path |-> ""], GitHub |-> Nil, SourceDir |-> ""],
     [Local |-> Nil,
      GitHub |-> [Repo |-> "org/repo", Branch |-> "main", DeployOnPush |-> FALSE],
      SourceDir |-> "src"],
     [Local |-> [Path |-> "/a/b"], GitHub |-> Nil, SourceDir |-> "src"],
     [Local |-> [Path |-> ""], GitHub |-> Nil, SourceDir |-> "src"]}

----------------------------------------------------------------------------
(* State after construction *)

InitLocals ==
    /\ pc = "idle"
    /\ op = "none"
    /\ projects = <<>>
    /\ idx = 0
    /\ nimProjects = <<>>
    /\ siteList = <<>>
    /\ url = ""
    /\ launches = <<>>
    /\ ret = NoReturn
    /\ succeeded = {}

\* An app spec with static sites holding any entries.  The functions under
\* study treat all sites alike and the lists handed to them name the sites in
\* every order, so the sites are numbered by non-decreasing EnvsCode: every
\* other heap is one of these with its sites renamed.
Init ==
    /\ InitLocals
    /\ sites \in [Sites -> SeqsUpTo(EnvPool, MaxEnvs)]
    /\ \A s, t \in Sites : s < t => EnvsCode(sites[s]) <= EnvsCode(sites[t])
    /\ sites0 = sites
    /\ initial = sites

\* An app spec whose static sites play no part
InitNoSites ==
    /\ InitLocals
    /\ sites = [s \in Sites |-> <<>>]
    /\ sites0 = sites
    /\ initial = sites

----------------------------------------------------------------------------
(* The caller takes the returned value; the thread is idle again.  The    *)
(* history of successful injections is brought up to date here, so that    *)
(* during a call it tells of the earlier calls only.                       *)

Return ==
    /\ pc = "done"
    /\ pc' = "idle"
    /\ op' = "none"
    /\ projects' = <<>>
    /\ idx' = 0
    /\ nimProjects' = <<>>
    /\ siteList' = <<>>
    /\ url' = ""
    /\ launches' = <<>>
    /\ ret' = NoReturn
    /\ sites0' = sites
    /\ succeeded' = IF op = "inject" /\ ret.err = NoError
                    THEN succeeded \cup {siteList}
                    ELSE succeeded
    /\ UNCHANGED <<sites, initial>>

----------------------------------------------------------------------------
(* convertToNimProject called on its own *)

ConvertCall(spec) ==
    /\ pc = "idle"
    /\ pc' = "convert"
    /\ op' = "convert"
    /\ projects' = <<spec>>
    /\ UNCHANGED <<idx, nimProjects, sites, siteList, url, launches, ret,
                   sites0, initial, succeeded>>

ConvertReturn ==
    /\ pc = "convert"
    /\ ret' = convertToNimProject(projects[1])
    /\ pc' = "done"
    /\ UNCHANGED <<op, projects, idx, nimProjects, sites, siteList, url,
                   launches, sites0, initial, succeeded>>

----------------------------------------------------------------------------
(* deployServerless *)

DeployCall(ps) ==
    /\ pc = "idle"
    /\ pc' = "deploy_loop"
    /\ op' = "deploy"
    /\ projects' = ps
    /\ nimProjects' = <<>>
    /\ idx' = 1
    /\ UNCHANGED <<sites, siteList, url, launches, ret, sites0, initial,
                   succeeded>>

\* Faulty variant: the loop goes on whatever the builder says
DeployConvert_IgnoreError ==
    /\ pc = "deploy_loop"
    /\ idx <= Len(projects)
    /\ LET r == convertToNimProject(projects[idx])
       IN  /\ nimProjects' = Append(nimProjects, r.project)
           /\ idx' = idx + 1
           /\ UNCHANGED <<pc, ret>>
    /\ UNCHANGED <<op, projects, sites, siteList, url, launches, sites0,
                   initial, succeeded>>

\* One iteration of 'for _, project := range projects'
DeployConvert ==
    /\ pc = "deploy_loop"
    /\ idx <= Len(projects)
    /\ LET r == convertToNimProject(projects[idx])
       IN  IF r.err # NoError
           THEN /\ ret' = [output |-> "", err |-> r.err]
                /\ pc' = "done"
                /\ UNCHANGED <<nimProjects, idx>>
           ELSE /\ nimProjects' = Append(nimProjects, r.project)
                /\ idx' = idx + 1
                /\ UNCHANGED <<pc, ret>>
    /\ UNCHANGED <<op, projects, sites, siteList, url, launches, sites0,
                   initial, succeeded>>

\* After the loop: 'return runNim(args...)'
DeployRun ==
    /\ pc = "deploy_loop"
    /\ idx > Len(projects)
    /\ \E home \in HomeOutcomes, exec \in ExecOutcomes :
          LET r == runNim(deployArgs(nimProjects), home, exec)
          IN  /\ launches' = launches \o r.launched
              /\ ret' = [output |-> r.output, err |-> r.err]
    /\ pc' = "done"
    /\ UNCHANGED <<op, projects, idx, nimProjects, sites, siteList, url,
                   sites0, initial, succeeded>>

----------------------------------------------------------------------------
(* addServerlessURLToStaticSites *)

InjectCall(list) ==
    /\ pc = "idle"
    /\ pc' = "inject_fetch"
    /\ op' = "inject"
    /\ siteList' = list
    /\ UNCHANGED <<projects, idx, nimProjects, sites, url, launches, ret,
                   sites0, initial, succeeded>>

\* 'url, err := getServerlessURL(); if err != nil { return err }'
InjectFetch ==
    /\ pc = "inject_fetch"
    /\ \E home \in HomeOutcomes, exec \in ExecOutcomes :
          LET r == getServerlessURL(home, exec)
          IN  /\ launches' = launches \o r.launched
              /\ url' = r.output
              /\ IF r.err # NoError
                 THEN /\ ret' = [err |-> r.err]
                      /\ pc' = "done"
                      /\ UNCHANGED idx
                 ELSE /\ idx' = 1
                      /\ pc' = "inject_loop"
                      /\ UNCHANGED ret
    /\ UNCHANGED <<op, projects, nimProjects, sites, siteList, sites0,
                   initial, succeeded>>

\* Faulty variant: a conflict undoes what the call appended so far
InjectSite_RollBack ==
    /\ pc = "inject_loop"
    /\ idx <= Len(siteList)
    /\ LET site == siteList[idx]
           r == addURLToSite(url, sites[site])
       IN  IF r.err # NoError
           THEN /\ sites' = sites0
                /\ ret' = [err |-> r.err]
                /\ pc' = "done"
                /\ UNCHANGED idx
           ELSE /\ sites' = [sites EXCEPT ![site] = r.envs]
                /\ idx' = idx + 1
                /\ UNCHANGED <<pc, ret>>
    /\ UNCHANGED <<op, projects, nimProjects, siteList, url, launches,
                   sites0, initial, succeeded>>

\* One iteration of 'for _, site := range sites'
InjectSite ==
    /\ pc = "inject_loop"
    /\ idx <= Len(siteList)
    /\ LET site == siteList[idx]
           r == addURLToSite(url, sites[site])
       IN  /\ sites' = [sites EXCEPT ![site] = r.envs]
           /\ IF r.err # NoError
              THEN /\ ret' = [err |-> r.err]
                   /\ pc' = "done"
                   /\ UNCHANGED idx
              ELSE /\ idx' = idx + 1
                   /\ UNCHANGED <<pc, ret>>
    /\ UNCHANGED <<op, projects, nimProjects, siteList, url, launches,
                   sites0, initial, succeeded>>

\* After the loop: 'return nil'
InjectReturn ==
    /\ pc = "inject_loop"
    /\ idx > Len(siteList)
    /\ ret' = [err |-> NoError]
    /\ pc' = "done"
    /\ UNCHANGED <<op, projects, idx, nimProjects, sites, siteList, url,
                   launches, sites0, initial, succeeded>>

----------------------------------------------------------------------------
(* Specifications *)

NextBuilder ==
    \/ \E spec \in AppServerlessSpecs : ConvertCall(spec)
    \/ ConvertReturn
    \/ Return

SpecBuilder == InitNoSites /\ [][NextBuilder]_vars

NextDeploy ==
    \/ \E ps \in SeqsUpTo(DeployPool, MaxProjects) : DeployCall(ps)
    \/ DeployConvert
    \/ DeployRun
    \/ Return

SpecDeploy == InitNoSites /\ [][NextDeploy]_vars

NextInject ==
    \/ \E list \in SeqsUpTo(Sites, MaxSiteList) : InjectCall(list)
    \/ InjectFetch
    \/ InjectSite
    \/ InjectReturn
    \/ Return

SpecInject == Init /\ [][NextInject]_vars

Next == NextBuilder \/ NextDeploy \/ NextInject

Spec == Init /\ [][Next]_vars

----------------------------------------------------------------------------
(* Vocabulary of the properties *)

\* The error kinds of the design, by the message that carries them
ErrorKind(err) ==
    CASE err = NoError -> "none"
      [] err = ErrNoSource -> "MissingSourceSpec"
      [] err = ErrBothSources -> "ConflictingSourceSpec"
      [] err = ErrDeployOnPush -> "UnsupportedFeature"
      [] err \in {ErrRepoRequired, ErrLocalEmpty} -> "MissingRequiredField"
      [] err = ErrConflictingUse -> "ConflictingVariable"
      [] OTHER -> "other"

ConvertDone == op = "convert" /\ pc = "done"
DeployDone == op = "deploy" /\ pc = "done"
InjectDone == op = "inject" /\ pc = "done"

\* Errors of the path resolver (HomeDirectoryUnavailable)
HomeErrors == {h.err : h \in HomeOutcomes} \ {NoError}

----------------------------------------------------------------------------
(* Project Reference Builder *)

\* The kind the ordered checks (1), (2), (3a), (3b), (4c) give a spec
ExpectedKind(spec) ==
    IF spec.Local = Nil /\ spec.GitHub = Nil THEN "MissingSourceSpec"
    ELSE IF spec.Local # Nil /\ spec.GitHub # Nil THEN "ConflictingSourceSpec"
    ELSE IF spec.GitHub # Nil /\ spec.GitHub.DeployOnPush THEN "UnsupportedFeature"
    ELSE IF spec.GitHub # Nil /\ spec.GitHub.Repo = "" THEN "MissingRequiredField"
    ELSE IF spec.Local # Nil /\ spec.Local.Path = "" /\ spec.SourceDir = ""
         THEN "MissingRequiredField"
    ELSE "none"

\* C6: convertToNimProject reports the error of the first matching check in
\* the order (1) neither source, (2) both sources, (3a) deploy on push,
\* (3b) empty repo, (4c) empty path and source dir, and succeeds on every
\* other spec.
C6_FirstMatchingCheck ==
    ConvertDone => ErrorKind(ret.err) = ExpectedKind(projects[1])

\* Case (3a) with an empty Repo: deploy on push is reported, not the repo
C6_Witness ==
    /\ ConvertDone
    /\ projects[1].Local = Nil
    /\ projects[1].GitHub # Nil
    /\ projects[1].GitHub.DeployOnPush
    /\ projects[1].GitHub.Repo = ""
    /\ ret.err = ErrDeployOnPush

\* The reference the design gives an accepted spec
ExpectedReference(spec) ==
    IF spec.GitHub # Nil
    THEN "github:" \o spec.GitHub.Repo
         \o (IF spec.SourceDir # "" THEN "/" \o spec.SourceDir ELSE "")
         \o (IF spec.GitHub.Branch # "" THEN "#" \o spec.GitHub.Branch ELSE "")
    ELSE IF spec.Local.Path # "" /\ spec.SourceDir # ""
         THEN spec.Local.Path \o "/" \o spec.SourceDir
    ELSE IF spec.SourceDir = "" THEN spec.Local.Path
    ELSE spec.SourceDir

\* C7: for every accepted spec the reference is github:Repo[/SourceDir][#Branch]
\* for a GitHub source and Path/SourceDir, Path or SourceDir for a Local one.
C7_Reference ==
    (ConvertDone /\ ret.err = NoError) =>
        ret.project = ExpectedReference(projects[1])

\* A GitHub source with a sub-directory and a branch: both segments appear
C7_Witness ==
    /\ ConvertDone
    /\ ret.err = NoError
    /\ projects[1].GitHub # Nil
    /\ projects[1].SourceDir # ""
    /\ projects[1].GitHub.Branch # ""
    /\ ret.project = "github:org/repo/src#main"

----------------------------------------------------------------------------
(* Deployment Orchestrator *)

Fails(spec) == convertToNimProject(spec).err # NoError
Failing == {i \in 1..Len(projects) : Fails(projects[i])}
FirstFailing == CHOOSE i \in Failing : \A j \in Failing : i <= j
References == [i \in 1..Len(projects) |-> convertToNimProject(projects[i]).project]
Preamble == <<"project", "deploy", "--exclude", "web">>

\* C1: when some component fails translation, deployServerless launches
\* the external tool zero times and returns the translation error of the first
\* failing component in input order, with empty output text.
C1_FailFast ==
    (op = "deploy" /\ Failing # {}) =>
        /\ launches = <<>>
        /\ pc = "done" =>
              ret = [output |-> "", err |-> convertToNimProject(projects[FirstFailing]).err]

\* Three components, the second one failing, the third failing otherwise
C1_Witness ==
    /\ DeployDone
    /\ Len(projects) = 3
    /\ Failing = {2, 3}
    /\ ErrorKind(ret.err) = "UnsupportedFeature"
    /\ ErrorKind(convertToNimProject(projects[3]).err) = "MissingSourceSpec"

\* C2 as stated: when all components translate, exactly one launch, with the
\* preamble followed by the references in input order.
C2_ExactlyOneLaunch ==
    (DeployDone /\ Failing = {}) =>
        /\ Len(launches) = 1
        /\ launches[1].args = Preamble \o References

\* C2 amended: when all components translate, deployServerless launches the
\* tool exactly once, with the preamble followed by the references in input
\* order, unless the path of the tool cannot be resolved; then it launches
\* nothing and returns the resolver's error with empty output.
C2_OneLaunchIfResolved ==
    (DeployDone /\ Failing = {}) =>
        \/ /\ Len(launches) = 1
           /\ launches[1].args = Preamble \o References
           /\ ret = [output |-> launches[1].output, err |-> launches[1].err]
        \/ /\ launches = <<>>
           /\ ret.output = ""
           /\ ret.err \in HomeErrors

\* Three accepted components with three different references, launched
C2_Witness ==
    /\ DeployDone
    /\ Len(projects) = 3
    /\ Failing = {}
    /\ Len(launches) = 1
    /\ launches[1].args =
          <<"project", "deploy", "--exclude", "web",
            "/a/b/src", "github:org/repo/src#main", "src">>

----------------------------------------------------------------------------
(* Endpoint Injector *)

HasKey(envs) == \E i \in 1..Len(envs) : envs[i].Key = "SERVERLESS_URL"
KeyCount(envs) == Cardinality({i \in 1..Len(envs) : envs[i].Key = "SERVERLESS_URL"})
Listed == {siteList[i] : i \in 1..Len(siteList)}
Distinct == \A i, j \in 1..Len(siteList) : siteList[i] = siteList[j] => i = j

\* The endpoint query was launched and ended without error
Fetched == Len(launches) = 1 /\ launches[1].err = NoError

\* The entry the design has the injector append for endpoint u
Injected(u) ==
    [Key |-> "SERVERLESS_URL", Value |-> u, Scope |-> "BUILD_TIME",
     Type |-> "GENERAL"]

\* Sites of the list that held the key when the call started
Conflicting == {s \in Listed : HasKey(sites0[s])}

C4_SuccessAppendsOne ==
    (InjectDone /\ ret.err = NoError) =>
        /\ Len(launches) = 1
        /\ \A s \in Listed :
              /\ Len(sites[s]) = Len(sites0[s]) + 1
              /\ sites[s][Len(sites[s])] = Injected(launches[1].output)
              /\ \A j \in 1..Len(sites0[s]) : sites[s][j] = sites0[s][j]

\* A successful call on two sites, one of which held two entries before
C4_Witness ==
    /\ InjectDone
    /\ ret.err = NoError
    /\ Len(siteList) = 2
    /\ \E s \in Listed : Len(sites0[s]) = 2 /\ Len(sites[s]) = 3
    /\ \A s \in Listed : sites[s][Len(sites[s])].Value = "https://ns.example\n"

\* Entries appended to site s during the current call
Appended(s) == {sites[s][j] : j \in (Len(sites0[s]) + 1)..Len(sites[s])}

\* C5 as stated: in one call the tool is launched exactly once.
C5_ExactlyOneLaunch ==
    InjectDone =>
        /\ Len(launches) = 1
        /\ launches[1].args = <<"auth", "current", "--web">>

\* C5 amended: in one call the tool is launched at most once, with arguments
\* auth current --web, before any site is inspected or changed, and exactly
\* once unless the path of the tool cannot be resolved (then the call returns
\* the resolver's error and touches no site); every entry appended during
\* the call carries the text output of that launch, unchanged.
C5_OneFetchBeforeSites ==
    op = "inject" =>
        /\ Len(launches) <= 1
        /\ \A i \in 1..Len(launches) : launches[i].args = <<"auth", "current", "--web">>
        /\ pc = "inject_fetch" => launches = <<>> /\ sites = sites0
        /\ pc = "inject_loop" => Fetched /\ url = launches[1].output
        /\ (pc = "done" /\ launches = <<>>) => ret.err \in HomeErrors
        /\ sites # sites0 => Fetched
        /\ \A s \in Sites : \A e \in Appended(s) : e.Value = launches[1].output

\* A finished call on two sites: one launch, two entries with its output
C5_Witness ==
    /\ InjectDone
    /\ Len(siteList) = 2
    /\ Len(launches) = 1
    /\ launches[1].output = "https://ns.example\n"
    /\ \A s \in Listed : Appended(s) = {Injected("https://ns.example\n")}

\* C8: whenever a launch of the tool fails, the operation that issued it
\* returns the tool's combined output together with the error.
C8_OutputSurfaced ==
    (pc = "done" /\ op \in {"deploy", "inject"}
       /\ Len(launches) = 1 /\ launches[1].err # NoError) =>
        /\ "output" \in DOMAIN ret
        /\ ret.output = launches[1].output
        /\ ret.err = launches[1].err

\* The first listed site that held the key when the call started
FirstConflict ==
    CHOOSE k \in 1..Len(siteList) :
        /\ HasKey(sites0[siteList[k]])
        /\ \A j \in 1..(k - 1) : ~HasKey(sites0[siteList[j]])

AtMostOneKey ==
    \A s \in Sites : KeyCount(initial[s]) <= 1 => KeyCount(sites[s]) <= 1

====
